---- MODULE Spec2Model ----
(***************************************************************************)
(* Soft-delete / uniqueness / hierarchical-filter model of the REST        *)
(* controllers for courses, commissions, rubrics and users.                *)
(*                                                                         *)
(* Every collection is a sequence of documents; a document's position is   *)
(* its internal _id.  Nothing is ever removed from a collection.           *)
(* A create handler awaits twice (existence query, then save); the two     *)
(* halves are separate actions so that concurrent requests interleave.    *)
(* The collections are independent of each other, so a behaviour works on *)
(* one resource (one router of the application) at a time.                *)
(***************************************************************************)
EXTENDS Integers, Sequences, FiniteSets, TLC

VARIABLES resource, courses, commissions, rubrics, users, uploads, pending, last

vars == <<resource, courses, commissions, rubrics, users, uploads, pending, last>>

----------------------------------------------------------------------------
(* Bounds *)

MaxCourses == 2
MaxCommissions == 2
MaxRubrics == 2
MaxUsers == 2
MaxInflight == 2

----------------------------------------------------------------------------
(* JavaScript values *)

\* req.body.<field> that is missing (undefined)
Undefined == "<undefined>"
\* null, as stored in university_id of a super-admin
Null == "<null>"
\* identifiers that are matched against a regular expression or lowercased
\* are sequences of characters; the empty sequence is the empty string, and
\* also stands for a missing identifier (the handlers only test truthiness)
NoId == <<>>
\* a missing year (undefined or 0: the handlers only test truthiness)
NoYear == 0

\* !v for a string field
Falsy(v) == v = Undefined \/ v = ""

Digits == {"0", "1", "2", "3", "4", "5", "6", "7", "8", "9"}
Lower == {"a", "b", "c", "d", "e", "f", "g", "h", "i", "j", "k", "l", "m",
          "n", "o", "p", "q", "r", "s", "t", "u", "v", "w", "x", "y", "z"}

\* String.prototype.toLowerCase, character by character
toLowerCase(s) ==
    [i \in DOMAIN s |-> IF s[i] = "A" THEN "a" ELSE IF s[i] = "B" THEN "b" ELSE s[i]]

\* responses: res.status(status).json({message, error})
NoError == "<none>"
ClaveDuplicada == "Clave duplicada"
\* error.message of the storage error with code 11000, which the generic
\* 500 responses copy into their error field
E11000 == "E11000 duplicate key error"

Response(op, id, body, status, msg, err) ==
    [op |-> op, id |-> id, body |-> body, status |-> status, msg |-> msg, error |-> err]

NoBody == [none |-> TRUE]

\* what the part of a create handler before the save decides: a rejection,
\* or to go on to the save
Reject(status, msg) == [status |-> status, msg |-> msg, error |-> NoError]
Proceed == [status |-> 0, msg |-> "", error |-> NoError]
NoResponse == Response("none", 0, NoBody, 0, "", NoError)

\* positions of the elements of a sequence that satisfy a test
Ids(coll) == DOMAIN coll

\* Model.findOne(filter): the first matching document in natural order, 0 when none
FirstId(S) == IF S = {} THEN 0 ELSE CHOOSE i \in S : \A j \in S : i <= j

\* The requests that have passed their existence query and wait at the save
\* are a multiset: n numbers the identical requests in flight.
Await(P, op, b) ==
    P \cup {[op |-> op, body |-> b,
             n |-> Cardinality({q \in P : q.op = op /\ q.body = b}) + 1]}

\* identical requests are interchangeable: the one numbered last is resumed
Resumable(P, q) ==
    q \in P /\ \A r \in P : (r.op = q.op /\ r.body = q.body) => r.n <= q.n

\* the result of parseInt on a string that does not start with a digit; it
\* is equal to no stored year
NaN == -1

RECURSIVE ParseDigits(_, _)
ParseDigits(s, acc) ==
    IF s = <<>> \/ Head(s) \notin Digits THEN acc
    ELSE LET value == CHOOSE n \in 0..9 :
                 <<"0", "1", "2", "3", "4", "5", "6", "7", "8", "9">>[n + 1] = Head(s)
         IN  ParseDigits(Tail(s), acc * 10 + value)

\* parseInt(year): the number written by the leading digits of the string,
\* whatever follows them
parseInt(s) == IF s = <<>> \/ Head(s) \notin Digits THEN NaN ELSE ParseDigits(s, 0)

\* query strings of the year parameter
Y_2025 == <<"2", "0", "2", "5">>
Y_2024 == <<"2", "0", "2", "4">>
Y_2025_SUFFIX == <<"2", "0", "2", "5", "x">>

\* req.body[f] === undefined: the request does not carry the field
Absent(b, f) ==
    IF f \notin DOMAIN b THEN TRUE
    ELSE IF f \in {"course_id", "username", "password"} THEN b[f] = NoId
    ELSE IF f = "year" THEN b[f] = NoYear
    ELSE IF f = "rubric_json" THEN b[f] = [none |-> TRUE]
    ELSE IF f \in {"rubric_number", "rubric_id"} THEN FALSE
    ELSE b[f] = Undefined

\* the filter object built from the truthy query parameters
\* (year and course_id are character sequences, missing when empty)
Filters(query, names) ==
    LET truthy(g) == IF g \in {"year", "course_id"} THEN query[g] # NoId
                     ELSE ~Falsy(query[g])
    IN  [f \in {g \in names : g \in DOMAIN query /\ truthy(g)} |->
            IF f = "year" THEN parseInt(query[f]) ELSE query[f]]

Matches(doc, filters) == \A f \in DOMAIN filters : doc[f] = filters[f]

----------------------------------------------------------------------------
(* Careers: read by the course controller, written by no modelled handler *)

careers == { [career_id |-> "isi-frm", deleted |-> FALSE],
             [career_id |-> "isi-frsn", deleted |-> FALSE],
             [career_id |-> "isi-fra", deleted |-> TRUE] }

\* Career.findOne({ career_id, deleted: false })
CareerFindActive(career_id) ==
    \E c \in careers : c.career_id = career_id /\ c.deleted = FALSE

----------------------------------------------------------------------------
(* Courses (hierarchical controller) *)

CID_PROG1 == <<"p", "r", "o", "g", "r", "a", "m", "a", "c", "i", "o", "n", "-", "1">>
CID_2025_PROG1 == <<"2", "0", "2", "5", "-", "p", "r", "o", "g", "r", "a", "m", "a", "c", "i", "o", "n", "-", "1">>
CID_2025_DIS == <<"2", "0", "2", "5", "-", "d", "i", "s", "e", "n", "i", "o">>

MsgCareerNotFound == "La carrera especificada no existe"
MsgCourseExists == "Ya existe un curso con ese ID en esta carrera"
MsgCourseNotFound == "Curso no encontrado"

\* /^[0-9]{4}-[a-z0-9-]+$/.test(course_id)
courseIdRegex(s) ==
    /\ Len(s) >= 6
    /\ \A i \in 1..4 : s[i] \in Digits
    /\ s[5] = "-"
    /\ \A i \in 6..Len(s) : s[i] \in (Lower \cup Digits \cup {"-"})

\* request bodies of POST /api/courses
CourseBody(course_id, name, career_id) ==
    [course_id |-> course_id, name |-> name, year |-> 2025, career_id |-> career_id,
     faculty_id |-> "frm", university_id |-> "utn"]

CreateCourseBodies ==
    { CourseBody(CID_2025_PROG1, "Programacion 1", "isi-frm"),
      CourseBody(CID_2025_PROG1, "Programacion 1", "isi-frsn"),
      CourseBody(CID_PROG1, "Programacion 1", "isi-frm"),
      CourseBody(CID_PROG1, "Programacion 1", "isi-frsn"),
      CourseBody(CID_2025_PROG1, "Programacion 1", "isi-fra"),
      CourseBody(CID_2025_PROG1, Undefined, "isi-frm") }

\* request bodies of PUT /api/courses/:id
CourseUpdate(name, career_id, faculty_id) ==
    [name |-> name, year |-> NoYear, career_id |-> career_id,
     faculty_id |-> faculty_id, university_id |-> Undefined]

UpdateCourseBodies ==
    { CourseUpdate(Undefined, Undefined, Undefined),
      CourseUpdate("Programacion I", Undefined, Undefined) @@ [course_id |-> CID_2025_DIS],
      CourseUpdate(Undefined, "isi-frm", Undefined),
      CourseUpdate(Undefined, "isi-frsn", Undefined),
      CourseUpdate(Undefined, "isi-fra", Undefined) }

\* the pre(/^find/) hook: a query that does not name `deleted` sees only
\* the documents with deleted = false
CourseHook(S, namesDeleted) ==
    IF namesDeleted THEN S ELSE {i \in S : courses[i].deleted = FALSE}

\* Course.findById(id): findOne({ _id: id }) through the hook
CourseFindById(id) ==
    FirstId(CourseHook({i \in Ids(courses) : i = id}, FALSE))

\* Course.findOne({ career_id, course_id, deleted: { $in: [true, false] } })
CourseFindAny(career_id, course_id) ==
    FirstId(CourseHook({i \in Ids(courses) :
                          /\ courses[i].career_id = career_id
                          /\ courses[i].course_id = course_id
                          /\ courses[i].deleted \in {TRUE, FALSE}}, TRUE))

\* an index declared over the name as well
CourseIndexKey_withName(doc) == <<doc.career_id, doc.course_id, doc.name>>

\* the key of the unique index of the course collection
CourseIndexKey(doc) == <<doc.career_id, doc.course_id>>

\* the unique index rejects a write (E11000) that would leave two documents
\* with the same key
CourseIndexAllows(coll) ==
    \A i, j \in DOMAIN coll :
        CourseIndexKey(coll[i]) = CourseIndexKey(coll[j]) => i = j

\* Course.findActive(filters): deleted = false and every supplied filter matches
CourseFindActive(filters) ==
    {i \in Ids(courses) :
        courses[i].deleted = FALSE /\ Matches(courses[i], filters)}

\* getCourses that forgets the career_id filter
getCourses_noCareer(query) ==
    CourseFindActive(Filters(query, {"year", "faculty_id", "university_id"}))

\* getCourses: a filter for each truthy query parameter among career_id, year,
\* faculty_id and university_id; any other parameter (course_id) is not read
getCourses(query) ==
    CourseFindActive(Filters(query, {"career_id", "year", "faculty_id", "university_id"}))

\* req.query of GET /api/courses
CourseQueries ==
    [career_id : {Undefined, "", "isi-frm", "isi-frsn"},
     year : {NoId, Y_2025, Y_2024, Y_2025_SUFFIX},
     course_id : {NoId, CID_2025_PROG1}]

\* createCourse up to the save: validation and the existence query
createCourseCheck(b) ==
    LET existing == CourseFindAny(b.career_id, b.course_id)
    IN  IF \/ b.course_id = NoId \/ Falsy(b.name) \/ b.year = NoYear
           \/ Falsy(b.career_id) \/ Falsy(b.faculty_id) \/ Falsy(b.university_id)
        THEN Reject(400, "Faltan campos requeridos: course_id, name, year, career_id, faculty_id, university_id")
        ELSE IF ~courseIdRegex(b.course_id)
        THEN Reject(400, "El course_id debe tener el formato YYYY-nombre (ej: 2025-programacion-ii)")
        ELSE IF ~CareerFindActive(b.career_id)
        THEN Reject(400, MsgCareerNotFound)
        ELSE IF existing # 0
        THEN IF courses[existing].deleted
             THEN Reject(400, "Ya existe un curso con ese ID en esta carrera (eliminado). Contacte al administrador para restaurarlo.")
             ELSE Reject(400, MsgCourseExists)
        ELSE Proceed

createCourse(b) ==
    /\ resource = "course"
    /\ LET r == createCourseCheck(b)
       IN  IF r # Proceed
           THEN /\ last' = Response("createCourse", 0, b, r.status, r.msg, r.error)
                /\ UNCHANGED pending
           ELSE /\ Cardinality({CourseIndexKey(courses[i]) : i \in DOMAIN courses}
                                \cup {CourseIndexKey(q.body) : q \in pending}
                                \cup {CourseIndexKey(b)}) <= MaxCourses
                /\ Cardinality(pending) < MaxInflight
                /\ pending' = Await(pending, "createCourse", b)
                /\ UNCHANGED last
    /\ UNCHANGED <<resource, uploads, courses, commissions, rubrics, users>>

\* new Course({...})
NewCourse(b) ==
    [course_id |-> b.course_id, name |-> b.name, year |-> b.year,
     career_id |-> b.career_id, faculty_id |-> b.faculty_id,
     university_id |-> b.university_id, deleted |-> FALSE]

\* createCourse from `await course.save()` on
createCourseSave(q) ==
    /\ resource = "course"
    /\ Resumable(pending, q)
    /\ q.op = "createCourse"
    /\ LET b == q.body
           saved == Append(courses, NewCourse(b))
       IN  IF CourseIndexAllows(saved)
           THEN /\ Len(courses) < MaxCourses
                /\ courses' = saved
                /\ last' = Response("createCourse", Len(saved), b, 201, "Curso creado exitosamente", NoError)
           ELSE /\ courses' = courses
                /\ last' = Response("createCourse", 0, b, 409, MsgCourseExists, ClaveDuplicada)
    /\ pending' = pending \ {q}
    /\ UNCHANGED <<resource, uploads, commissions, rubrics, users>>

\* updateCourse assigning the name without testing that the body carries one
CourseAssign_unguardedName(doc, b) ==
    [doc EXCEPT
        !.career_id = IF ~Falsy(b.career_id) THEN b.career_id ELSE @,
        !.name = b.name,
        !.year = IF b.year # NoYear THEN b.year ELSE @,
        !.faculty_id = IF ~Falsy(b.faculty_id) THEN b.faculty_id ELSE @,
        !.university_id = IF ~Falsy(b.university_id) THEN b.university_id ELSE @]

\* the assignments of updateCourse to the loaded document
CourseAssign(doc, b) ==
    [doc EXCEPT
        !.career_id = IF ~Falsy(b.career_id) THEN b.career_id ELSE @,
        !.name = IF ~Falsy(b.name) THEN b.name ELSE @,
        !.year = IF b.year # NoYear THEN b.year ELSE @,
        !.faculty_id = IF ~Falsy(b.faculty_id) THEN b.faculty_id ELSE @,
        !.university_id = IF ~Falsy(b.university_id) THEN b.university_id ELSE @]

updateCourse(id, b) ==
    /\ resource = "course"
    /\ LET respond(status, msg) ==
               /\ last' = Response("updateCourse", id, b, status, msg, NoError)
               /\ UNCHANGED courses
           found == CourseFindById(id)
       IN  IF /\ Falsy(b.name) /\ b.year = NoYear /\ Falsy(b.career_id)
              /\ Falsy(b.faculty_id) /\ Falsy(b.university_id)
           THEN respond(400, "Al menos un campo es requerido para actualizar")
           ELSE IF found = 0
           THEN respond(404, MsgCourseNotFound)
           ELSE IF ~Falsy(b.career_id) /\ ~CareerFindActive(b.career_id)
           THEN respond(400, MsgCareerNotFound)
           ELSE LET saved == [courses EXCEPT ![id] = CourseAssign(@, b)]
                IN  IF CourseIndexAllows(saved)
                    THEN /\ courses' = saved
                         /\ last' = Response("updateCourse", id, b, 200, "Curso actualizado exitosamente", NoError)
                    ELSE /\ last' = Response("updateCourse", id, b, 500, "Error al actualizar curso", E11000)
                         /\ UNCHANGED courses
    /\ UNCHANGED <<resource, uploads, commissions, rubrics, users, pending>>

\* courseSchema.methods.softDelete
CourseSoftDelete(doc) == [doc EXCEPT !.deleted = TRUE]

deleteCourse(id) ==
    /\ resource = "course"
    /\ LET found == CourseFindById(id)
       IN  IF found = 0
           THEN /\ last' = Response("deleteCourse", id, NoBody, 404, MsgCourseNotFound, NoError)
                /\ UNCHANGED courses
           ELSE /\ courses' = [courses EXCEPT ![id] = CourseSoftDelete(@)]
                /\ last' = Response("deleteCourse", id, NoBody, 200, "Curso eliminado exitosamente", NoError)
    /\ UNCHANGED <<resource, uploads, commissions, rubrics, users, pending>>

\* getCourseById: GET /api/courses/:id
getCourseById(id) ==
    LET course == CourseFindById(id)
    IN  IF course = 0
        THEN [status |-> 404, msg |-> MsgCourseNotFound, data |-> 0]
        ELSE [status |-> 200, msg |-> "", data |-> course]

CourseNext ==
    \/ \E b \in CreateCourseBodies : createCourse(b)
    \/ \E q \in pending : createCourseSave(q)
    \/ \E id \in 1..MaxCourses, b \in UpdateCourseBodies : updateCourse(id, b)
    \/ \E id \in 1..MaxCourses : deleteCourse(id)

----------------------------------------------------------------------------
(* Commissions *)

MsgCommissionExists == "Ya existe una comisión con ese ID en este curso"
MsgCommissionNotFound == "Comisión no encontrada"

\* request bodies of POST /api/commissions
CommissionBody(commission_id, name, course_id, career_id) ==
    [commission_id |-> commission_id, name |-> name, course_id |-> course_id,
     career_id |-> career_id, faculty_id |-> "frm", university_id |-> "utn",
     professor_name |-> Undefined, professor_email |-> Undefined, year |-> 2025]

CreateCommissionBodies ==
    { CommissionBody("comision-1", "Comision 1", CID_2025_PROG1, "isi-frm"),
      CommissionBody("comision-1", "Comision 1", CID_2025_PROG1, "isi-frsn"),
      CommissionBody("comision-1", Undefined, CID_2025_PROG1, "isi-frm") }

\* request bodies of PUT /api/commissions/:id
CommissionUpdate(name, course_id, professor_name) ==
    [name |-> name, course_id |-> course_id, career_id |-> Undefined,
     faculty_id |-> Undefined, university_id |-> Undefined,
     professor_name |-> professor_name, professor_email |-> Undefined, year |-> NoYear]

UpdateCommissionBodies ==
    { CommissionUpdate(Undefined, NoId, Undefined),
      CommissionUpdate(Undefined, CID_2025_DIS, Undefined),
      CommissionUpdate(Undefined, CID_2025_PROG1, Undefined),
      CommissionUpdate(Undefined, NoId, "") @@ [commission_id |-> "comision-2"] }

\* Commission.findById(id)
CommissionFindById(id) == FirstId({i \in Ids(commissions) : i = id})

\* Commission.findOne({ course_id, commission_id, deleted: false })
CommissionFindActiveKey(course_id, commission_id) ==
    FirstId({i \in Ids(commissions) :
                /\ commissions[i].course_id = course_id
                /\ commissions[i].commission_id = commission_id
                /\ commissions[i].deleted = FALSE})

\* Commission.findOne({ _id: id, deleted: true })
CommissionFindDeleted(id) ==
    FirstId({i \in Ids(commissions) : i = id /\ commissions[i].deleted = TRUE})

\* a unique index that also covers career_id
CommissionIndexKey_withCareer(doc) == <<doc.career_id, doc.course_id, doc.commission_id>>

\* the key of the unique index of the commission collection
CommissionIndexKey(doc) == <<doc.course_id, doc.commission_id>>

CommissionIndexAllows(coll) ==
    \A i, j \in DOMAIN coll :
        CommissionIndexKey(coll[i]) = CommissionIndexKey(coll[j]) => i = j

\* Commission.findActive(filters)
CommissionFindActive(filters) ==
    {i \in Ids(commissions) :
        commissions[i].deleted = FALSE /\ Matches(commissions[i], filters)}

\* getCommissions that forgets the course_id filter
getCommissions_noCourse(query) ==
    CommissionFindActive(Filters(query, {"year", "career_id", "faculty_id", "university_id"}))

\* getCommissions: GET /api/commissions
getCommissions(query) ==
    CommissionFindActive(
        Filters(query, {"course_id", "year", "career_id", "faculty_id", "university_id"}))

\* getAllCommissions: Commission.find(query) without a deleted filter
getAllCommissions(query) ==
    {i \in Ids(commissions) :
        Matches(commissions[i], Filters(query, {"course_id", "year", "career_id"}))}

\* req.query of GET /api/commissions and GET /api/commissions/all
CommissionQueries ==
    [course_id : {NoId, CID_2025_PROG1, CID_2025_DIS}, career_id : {Undefined, "", "isi-frm"},
     year : {NoId, Y_2025, Y_2024, Y_2025_SUFFIX}]

\* createCommission up to Commission.create
createCommissionCheck(b) ==
    IF \/ Falsy(b.commission_id) \/ Falsy(b.name) \/ b.course_id = NoId
       \/ Falsy(b.career_id) \/ Falsy(b.faculty_id) \/ Falsy(b.university_id)
       \/ b.year = NoYear
    THEN Reject(400, "Faltan campos requeridos: commission_id, name, course_id, career_id, faculty_id, university_id, year")
    ELSE IF CommissionFindActiveKey(b.course_id, b.commission_id) # 0
    THEN Reject(409, MsgCommissionExists)
    ELSE Proceed

createCommission(b) ==
    /\ resource = "commission"
    /\ LET r == createCommissionCheck(b)
       IN  IF r # Proceed
           THEN /\ last' = Response("createCommission", 0, b, r.status, r.msg, r.error)
                /\ UNCHANGED pending
           ELSE /\ Cardinality({CommissionIndexKey(commissions[i]) : i \in DOMAIN commissions}
                                \cup {CommissionIndexKey(q.body) : q \in pending}
                                \cup {CommissionIndexKey(b)}) <= MaxCommissions
                /\ Cardinality(pending) < MaxInflight
                /\ pending' = Await(pending, "createCommission", b)
                /\ UNCHANGED last
    /\ UNCHANGED <<resource, uploads, courses, commissions, rubrics, users>>

NewCommission(b) ==
    [commission_id |-> b.commission_id, name |-> b.name, course_id |-> b.course_id,
     career_id |-> b.career_id, faculty_id |-> b.faculty_id,
     university_id |-> b.university_id, professor_name |-> b.professor_name,
     professor_email |-> b.professor_email, year |-> b.year, deleted |-> FALSE]

\* createCommission from `await Commission.create(...)` on
createCommissionSave(q) ==
    /\ resource = "commission"
    /\ Resumable(pending, q)
    /\ q.op = "createCommission"
    /\ LET b == q.body
           saved == Append(commissions, NewCommission(b))
       IN  IF CommissionIndexAllows(saved)
           THEN /\ Len(commissions) < MaxCommissions
                /\ commissions' = saved
                /\ last' = Response("createCommission", Len(saved), b, 201,
                                    "Comisión creada exitosamente", NoError)
           ELSE /\ commissions' = commissions
                /\ last' = Response("createCommission", 0, b, 409,
                                    MsgCommissionExists, ClaveDuplicada)
    /\ pending' = pending \ {q}
    /\ UNCHANGED <<resource, uploads, courses, rubrics, users>>

\* updateCommission that also flags the document when it sets professor_name
CommissionAssign_flags(doc, b) ==
    [doc EXCEPT
        !.name = IF ~Falsy(b.name) THEN b.name ELSE @,
        !.course_id = IF b.course_id # NoId THEN b.course_id ELSE @,
        !.professor_name = IF b.professor_name # Undefined THEN b.professor_name ELSE @,
        !.deleted = IF b.professor_name # Undefined THEN TRUE ELSE @]

\* the assignments of updateCommission to the loaded document
CommissionAssign(doc, b) ==
    [doc EXCEPT
        !.name = IF ~Falsy(b.name) THEN b.name ELSE @,
        !.course_id = IF b.course_id # NoId THEN b.course_id ELSE @,
        !.career_id = IF ~Falsy(b.career_id) THEN b.career_id ELSE @,
        !.faculty_id = IF ~Falsy(b.faculty_id) THEN b.faculty_id ELSE @,
        !.university_id = IF ~Falsy(b.university_id) THEN b.university_id ELSE @,
        !.professor_name = IF b.professor_name # Undefined THEN b.professor_name ELSE @,
        !.professor_email = IF b.professor_email # Undefined THEN b.professor_email ELSE @,
        !.year = IF b.year # NoYear THEN b.year ELSE @]

\* updateCommission without the check of the deleted flag
updateCommission_deletedToo(id, b) ==
    /\ resource = "commission"
    /\ IF CommissionFindById(id) = 0
       THEN /\ last' = Response("updateCommission", id, b, 404, MsgCommissionNotFound, NoError)
            /\ UNCHANGED commissions
       ELSE LET saved == [commissions EXCEPT ![id] = CommissionAssign(@, b)]
            IN  IF CommissionIndexAllows(saved)
                THEN /\ commissions' = saved
                     /\ last' = Response("updateCommission", id, b, 200,
                                         "Comisión actualizada exitosamente", NoError)
                ELSE /\ last' = Response("updateCommission", id, b, 500,
                                         "Error al actualizar la comisión", E11000)
                     /\ UNCHANGED commissions
    /\ UNCHANGED <<resource, uploads, courses, rubrics, users, pending>>

updateCommission(id, b) ==
    /\ resource = "commission"
    /\ LET respond(status, msg) ==
               /\ last' = Response("updateCommission", id, b, status, msg, NoError)
               /\ UNCHANGED commissions
       IN  IF CommissionFindById(id) = 0
           THEN respond(404, MsgCommissionNotFound)
           ELSE IF commissions[id].deleted
           THEN respond(400, "No se puede actualizar una comisión eliminada. Restáurela primero.")
           ELSE LET saved == [commissions EXCEPT ![id] = CommissionAssign(@, b)]
                IN  IF CommissionIndexAllows(saved)
                    THEN /\ commissions' = saved
                         /\ last' = Response("updateCommission", id, b, 200,
                                             "Comisión actualizada exitosamente", NoError)
                    ELSE /\ last' = Response("updateCommission", id, b, 500, "Error al actualizar la comisión", E11000)
                         /\ UNCHANGED commissions
    /\ UNCHANGED <<resource, uploads, courses, rubrics, users, pending>>

\* commissionSchema.methods.softDelete / restore
CommissionSoftDelete(doc) == [doc EXCEPT !.deleted = TRUE]
CommissionRestore(doc) == [doc EXCEPT !.deleted = FALSE]

\* deleteCommission removing the document instead of flagging it
deleteCommission_hard(id) ==
    /\ resource = "commission"
    /\ IF CommissionFindById(id) = 0
       THEN /\ last' = Response("deleteCommission", id, NoBody, 404, MsgCommissionNotFound, NoError)
            /\ UNCHANGED commissions
       ELSE /\ commissions' = [i \in 1..(Len(commissions) - 1) |->
                                  IF i < id THEN commissions[i] ELSE commissions[i + 1]]
            /\ last' = Response("deleteCommission", id, NoBody, 200,
                                "Comisión eliminada exitosamente", NoError)
    /\ UNCHANGED <<resource, uploads, courses, rubrics, users, pending>>

deleteCommission(id) ==
    /\ resource = "commission"
    /\ LET respond(status, msg) ==
               /\ last' = Response("deleteCommission", id, NoBody, status, msg, NoError)
               /\ UNCHANGED commissions
       IN  IF CommissionFindById(id) = 0
           THEN respond(404, MsgCommissionNotFound)
           ELSE IF commissions[id].deleted
           THEN respond(400, "La comisión ya está eliminada")
           ELSE /\ commissions' = [commissions EXCEPT ![id] = CommissionSoftDelete(@)]
                /\ last' = Response("deleteCommission", id, NoBody, 200,
                                    "Comisión eliminada exitosamente", NoError)
    /\ UNCHANGED <<resource, uploads, courses, rubrics, users, pending>>

restoreCommission(id) ==
    /\ resource = "commission"
    /\ IF CommissionFindDeleted(id) = 0
       THEN /\ last' = Response("restoreCommission", id, NoBody, 404,
                                "Comisión eliminada no encontrada", NoError)
            /\ UNCHANGED commissions
       ELSE LET saved == [commissions EXCEPT ![id] = CommissionRestore(@)]
            IN  /\ commissions' = saved
                /\ last' = Response("restoreCommission", id, NoBody, 200,
                                    "Comisión restaurada exitosamente", NoError)
    /\ UNCHANGED <<resource, uploads, courses, rubrics, users, pending>>

\* getUniqueCommissions without the $group stage
getUniqueCommissions_noGroup(query) ==
    {{i \in Ids(commissions) :
        /\ commissions[i].deleted = FALSE
        /\ Matches(commissions[i], Filters(query, {"course_id", "year"}))}}

\* getUniqueCommissions: GET /api/commissions/unique. The pipeline groups the
\* matching documents by commission_id and keeps the $first of each group;
\* with no $sort before the $group the first one is whichever the scan meets
\* first, so the operator gives every result the request can return.
getUniqueCommissions(query) ==
    LET matched == {i \in Ids(commissions) :
                       /\ commissions[i].deleted = FALSE
                       /\ Matches(commissions[i], Filters(query, {"course_id", "year"}))}
    IN  {R \in SUBSET matched :
            \A i \in matched :
                Cardinality({j \in R : commissions[j].commission_id
                                          = commissions[i].commission_id}) = 1}

\* getCommissionById: GET /api/commissions/:id
getCommissionById(id) ==
    LET commission == CommissionFindById(id)
    IN  IF commission = 0
        THEN [status |-> 404, msg |-> MsgCommissionNotFound, data |-> 0]
        ELSE IF commissions[commission].deleted
        THEN [status |-> 404, msg |-> "Comisión no disponible (eliminada)", data |-> 0]
        ELSE [status |-> 200, msg |-> "", data |-> commission]

CommissionNext ==
    \/ \E b \in CreateCommissionBodies : createCommission(b)
    \/ \E q \in pending : createCommissionSave(q)
    \/ \E id \in 1..MaxCommissions, b \in UpdateCommissionBodies : updateCommission(id, b)
    \/ \E id \in 1..MaxCommissions : deleteCommission(id)
    \/ \E id \in 1..MaxCommissions : restoreCommission(id)

----------------------------------------------------------------------------
(* Users *)

UN_ADMIN == <<"a", "d", "m", "i", "n">>
UN_BOB == <<"b", "o", "b">>
UN_BOB_UC == <<"B", "o", "b">>
UN_ROOT == <<"r", "o", "o", "t">>

MinUsernameLength == 3
MinPasswordLength == 6

MsgUserExists == "El nombre de usuario ya está en uso"
MsgValidation == "Error de validación"
MsgUserNotFound == "Usuario no encontrado"

\* passwords are sequences of characters
PW_1 == <<"s", "e", "c", "r", "e", "t">>

\* bcrypt.hash(password, salt) in the pre-save hook
Hash(password) == <<"$2b$">> \o password

\* request bodies of POST /api/users
UserBody(username, password, role, university_id) ==
    [username |-> username, name |-> "Bob", password |-> password, role |-> role,
     university_id |-> university_id]

CreateUserBodies ==
    { UserBody(UN_BOB, PW_1, Undefined, "utn"),
      UserBody(UN_BOB_UC, PW_1, "user", "utn"),
      UserBody(UN_ROOT, PW_1, "super-admin", "utn"),
      UserBody(UN_ADMIN, PW_1, "admin", "utn"),
      UserBody(UN_BOB, PW_1, "user", Undefined),
      UserBody(UN_ROOT, <<"1", "2", "3">>, "super-admin", Undefined),
      UserBody(UN_BOB, NoId, "user", "utn") }

\* request bodies of PUT /api/users/:id
UserUpdate(username, name, role, university_id) ==
    [username |-> username, name |-> name, password |-> NoId, role |-> role,
     university_id |-> university_id]

UpdateUserBodies ==
    { UserUpdate(NoId, Undefined, "super-admin", Undefined),
      UserUpdate(NoId, "Roberto", "user", ""),
      UserUpdate(UN_ROOT, "Roberto", Undefined, "utn"),
      UserUpdate(<<"A", "d", "m", "i", "n">>, Undefined, Undefined, Undefined) }

\* the setters of userSchema.username (trim is the identity on the names used)
UsernameSetter(username) == toLowerCase(username)

\* the validators of userSchema.username and userSchema.password
UserValid(doc) ==
    /\ Len(doc.username) >= MinUsernameLength
    /\ \A i \in DOMAIN doc.username : doc.username[i] \in (Lower \cup Digits \cup {"_", "-"})

PasswordValid(password) == Len(password) >= MinPasswordLength

\* the unique index of userSchema.username
UserIndexKey(doc) == doc.username

\* a username path declared without unique: true
UserIndexAllows_notUnique(coll) == coll = coll

UserIndexAllows(coll) ==
    \A i, j \in DOMAIN coll : UserIndexKey(coll[i]) = UserIndexKey(coll[j]) => i = j

\* User.findById(id)
UserFindById(id) == FirstId({i \in Ids(users) : i = id})

\* the document as a handler sees it after loading: a stored document without
\* the deleted field reads as the schema default, and the next save of
\* the document stores that default
UserLoaded(id) ==
    IF "deleted" \in DOMAIN users[id] THEN users[id] ELSE users[id] @@ [deleted |-> FALSE]

\* the filter { deleted: false }: it matches no document without the field
UserStoredFalse(doc) == "deleted" \in DOMAIN doc /\ doc.deleted = FALSE

\* User.findOne({ username })
UserFindByUsername(username) ==
    FirstId({i \in Ids(users) : users[i].username = username})

\* user.toPublicJSON()
toPublicJSON(id) ==
    [id |-> id, username |-> users[id].username, role |-> users[id].role,
     deleted |-> (UserLoaded(id).deleted = TRUE)]

\* getUsers reading the flag as '1' instead of 'true'
getUsers_wrongFlag(query) ==
    LET includeDeleted == query.includeDeleted = "1"
        filters == Filters(query, {"role", "university_id"})
    IN  {toPublicJSON(i) : i \in {j \in Ids(users) :
            /\ (~includeDeleted => UserStoredFalse(users[j]))
            /\ Matches(users[j], filters)}}

\* getUsers: GET /api/users?includeDeleted=&role=&university_id=
getUsers(query) ==
    LET includeDeleted == query.includeDeleted = "true"
        filters == Filters(query, {"role", "university_id"})
    IN  {toPublicJSON(i) : i \in {j \in Ids(users) :
            /\ (~includeDeleted => UserStoredFalse(users[j]))
            /\ Matches(users[j], filters)}}

\* req.query of GET /api/users
UserQueries ==
    [includeDeleted : {Undefined, "true", "false"}, role : {Undefined, "user", "super-admin"},
     university_id : {Undefined, "utn"}]

\* User.findActive()
UserFindActive ==
    {i \in Ids(users) : UserStoredFalse(users[i]) \/ "deleted" \notin DOMAIN users[i]}

\* new User({...})
NewUser(b) ==
    LET userRole == IF Falsy(b.role) THEN "user" ELSE b.role
    IN  [username |-> UsernameSetter(b.username), name |-> b.name,
         password |-> b.password, role |-> userRole,
         university_id |-> IF userRole = "super-admin" THEN Null ELSE b.university_id,
         deleted |-> FALSE]

\* createUser up to the save
createUserCheck(b) ==
    LET userRole == IF Falsy(b.role) THEN "user" ELSE b.role
        existing == UserFindByUsername(toLowerCase(b.username))
    IN  IF b.username = NoId \/ b.password = NoId \/ Falsy(b.name)
        THEN Reject(400, "username, nombre y password son requeridos")
        ELSE IF userRole # "super-admin" /\ Falsy(b.university_id)
        THEN Reject(400, "El campo university_id es requerido para roles que no sean super-admin")
        ELSE IF existing # 0
        THEN IF UserLoaded(existing).deleted = TRUE
             THEN Reject(400, "Este nombre de usuario perteneció a una cuenta eliminada. Use otro nombre o restaure la cuenta.")
             ELSE Reject(400, MsgUserExists)
        ELSE Proceed

createUser(b) ==
    /\ resource = "user"
    /\ LET r == createUserCheck(b)
       IN  IF r # Proceed
           THEN /\ last' = Response("createUser", 0, b, r.status, r.msg, r.error)
                /\ UNCHANGED pending
           ELSE /\ Cardinality({UserIndexKey(users[i]) : i \in DOMAIN users}
                                \cup {UserIndexKey(NewUser(q.body)) : q \in pending}
                                \cup {UserIndexKey(NewUser(b))}) <= MaxUsers
                /\ Cardinality(pending) < MaxInflight
                /\ pending' = Await(pending, "createUser", b)
                /\ UNCHANGED last
    /\ UNCHANGED <<resource, uploads, courses, commissions, rubrics, users>>

\* createUser from `await user.save()` on
createUserSave(q) ==
    /\ resource = "user"
    /\ Resumable(pending, q)
    /\ q.op = "createUser"
    /\ LET b == q.body
           doc == NewUser(b)
           saved == Append(users, [doc EXCEPT !.password = Hash(@)])
       IN  IF ~(UserValid(doc) /\ PasswordValid(doc.password))
           THEN /\ users' = users
                /\ last' = Response("createUser", 0, b, 400, MsgValidation, NoError)
           ELSE IF UserIndexAllows(saved)
           THEN /\ Len(users) < MaxUsers
                /\ users' = saved
                /\ last' = Response("createUser", Len(saved), b, 201, "Usuario creado exitosamente", NoError)
           ELSE /\ users' = users
                /\ last' = Response("createUser", 0, b, 500, "Error al crear usuario", E11000)
    /\ pending' = pending \ {q}
    /\ UNCHANGED <<resource, uploads, courses, commissions, rubrics>>

\* updateUser without the guard on the role of the administrator
UserAssign_noRoleGuard(id, b) ==
    LET user0 == UserLoaded(id)
        renamed == b.username # NoId /\ toLowerCase(b.username) # user0.username
        user1 == IF renamed THEN [user0 EXCEPT !.username = UsernameSetter(b.username)] ELSE user0
        user2 == IF ~Falsy(b.name) THEN [user1 EXCEPT !.name = b.name] ELSE user1
        user4 == IF ~Falsy(b.role)
                 THEN [user2 EXCEPT !.role = b.role,
                                    !.university_id = IF b.role = "super-admin" THEN Null ELSE @]
                 ELSE user2
    IN  IF user0.username = UN_ADMIN /\ b.username # NoId /\ b.username # UN_ADMIN
        THEN [msg |-> "No se puede cambiar el username del administrador principal", doc |-> user0]
        ELSE IF renamed /\ UserFindByUsername(toLowerCase(b.username)) \notin {0, id}
        THEN [msg |-> MsgUserExists, doc |-> user0]
        ELSE [msg |-> "", doc |-> user4]

\* updateUser storing the supplied university_id whatever the role
UserAssign_universityUnchecked(id, b) ==
    LET user0 == UserLoaded(id)
        renamed == b.username # NoId /\ toLowerCase(b.username) # user0.username
        user1 == IF renamed THEN [user0 EXCEPT !.username = UsernameSetter(b.username)] ELSE user0
        user2 == IF ~Falsy(b.name) THEN [user1 EXCEPT !.name = b.name] ELSE user1
        user4 == IF ~Falsy(b.role)
                 THEN [user2 EXCEPT !.role = b.role,
                                    !.university_id = IF b.role = "super-admin" THEN Null ELSE @]
                 ELSE user2
        user5 == IF b.university_id # Undefined
                 THEN [user4 EXCEPT !.university_id = b.university_id]
                 ELSE user4
    IN  IF user0.username = UN_ADMIN /\ b.username # NoId /\ b.username # UN_ADMIN
        THEN [msg |-> "No se puede cambiar el username del administrador principal", doc |-> user0]
        ELSE IF renamed /\ UserFindByUsername(toLowerCase(b.username)) \notin {0, id}
        THEN [msg |-> MsgUserExists, doc |-> user0]
        ELSE IF ~Falsy(b.role) /\ user2.username = UN_ADMIN /\ b.role # "admin"
        THEN [msg |-> "No se puede cambiar el rol del administrador principal", doc |-> user0]
        ELSE [msg |-> "", doc |-> user5]

\* updateUser: the checks and assignments made on the loaded document, in
\* order; the result is the rejection message, or "" with the document to save
UserAssign(id, b) ==
    LET user0 == UserLoaded(id)
        renamed == b.username # NoId /\ toLowerCase(b.username) # user0.username
        existing == UserFindByUsername(toLowerCase(b.username))
        user1 == IF renamed THEN [user0 EXCEPT !.username = UsernameSetter(b.username)] ELSE user0
        user2 == IF ~Falsy(b.name) THEN [user1 EXCEPT !.name = b.name] ELSE user1
        user3 == IF b.password # NoId THEN [user2 EXCEPT !.password = b.password] ELSE user2
        user4 == IF ~Falsy(b.role)
                 THEN [user3 EXCEPT !.role = b.role,
                                    !.university_id = IF b.role = "super-admin" THEN Null ELSE @]
                 ELSE user3
        finalRole == IF ~Falsy(b.role) THEN b.role ELSE user4.role
        user5 == IF b.university_id # Undefined
                 THEN [user4 EXCEPT !.university_id =
                           IF finalRole = "super-admin" THEN Null ELSE b.university_id]
                 ELSE user4
    IN  IF user0.username = UN_ADMIN /\ b.username # NoId /\ b.username # UN_ADMIN
        THEN [msg |-> "No se puede cambiar el username del administrador principal", doc |-> user0]
        ELSE IF renamed /\ existing # 0 /\ existing # id
        THEN IF UserLoaded(existing).deleted = TRUE
             THEN [msg |-> "Este nombre de usuario perteneció a una cuenta eliminada. Use otro nombre.", doc |-> user0]
             ELSE [msg |-> MsgUserExists, doc |-> user0]
        ELSE IF ~Falsy(b.role) /\ user3.username = UN_ADMIN /\ b.role # "admin"
        THEN [msg |-> "No se puede cambiar el rol del administrador principal", doc |-> user0]
        ELSE [msg |-> "", doc |-> user5]

\* updateUser writing the supplied name to the store before its checks
updateUser_nameFirst(id, b) ==
    /\ resource = "user"
    /\ IF UserFindById(id) = 0
       THEN /\ last' = Response("updateUser", id, b, 404, MsgUserNotFound, NoError)
            /\ UNCHANGED users
       ELSE LET r == UserAssign(id, b)
                named == [users EXCEPT ![id] =
                             IF ~Falsy(b.name) THEN [UserLoaded(id) EXCEPT !.name = b.name]
                             ELSE @]
            IN  IF r.msg # ""
                THEN /\ last' = Response("updateUser", id, b, 400, r.msg, NoError)
                     /\ users' = named
                ELSE /\ last' = Response("updateUser", id, b, 200,
                                         "Usuario actualizado exitosamente", NoError)
                     /\ users' = [users EXCEPT ![id] = r.doc]
    /\ UNCHANGED <<resource, uploads, courses, commissions, rubrics, pending>>

updateUser(id, b) ==
    /\ resource = "user"
    /\ LET respond(status, msg) ==
               /\ last' = Response("updateUser", id, b, status, msg, NoError)
               /\ UNCHANGED users
       IN  IF UserFindById(id) = 0
           THEN respond(404, MsgUserNotFound)
           ELSE LET r == UserAssign(id, b)
                    passwordModified == r.doc.password # users[id].password
                    saved == [users EXCEPT ![id] =
                                 IF passwordModified
                                 THEN [r.doc EXCEPT !.password = Hash(@)]
                                 ELSE r.doc]
                IN  IF r.msg # ""
                    THEN respond(400, r.msg)
                    ELSE IF ~(UserValid(r.doc) /\ (passwordModified => PasswordValid(r.doc.password)))
                    THEN respond(400, MsgValidation)
                    ELSE IF UserIndexAllows(saved)
                    THEN /\ users' = saved
                         /\ last' = Response("updateUser", id, b, 200, "Usuario actualizado exitosamente", NoError)
                    ELSE /\ last' = Response("updateUser", id, b, 500, "Error al actualizar usuario", E11000)
                         /\ UNCHANGED users
    /\ UNCHANGED <<resource, uploads, courses, commissions, rubrics, pending>>

\* userSchema.methods.softDelete / restore
UserSoftDelete(doc) == [doc EXCEPT !.deleted = TRUE]
UserRestore(doc) == [doc EXCEPT !.deleted = FALSE]

\* deleteUser without the guard on the administrator
deleteUser_unprotected(id) ==
    /\ resource = "user"
    /\ LET respond(status, msg) ==
               /\ last' = Response("deleteUser", id, NoBody, status, msg, NoError)
               /\ UNCHANGED users
       IN  IF UserFindById(id) = 0 \/ UserLoaded(id).deleted = TRUE
           THEN respond(404, MsgUserNotFound)
           ELSE /\ users' = [users EXCEPT ![id] = UserSoftDelete(UserLoaded(id))]
                /\ last' = Response("deleteUser", id, NoBody, 200, "Usuario eliminado exitosamente", NoError)
    /\ UNCHANGED <<resource, uploads, courses, commissions, rubrics, pending>>

deleteUser(id) ==
    /\ resource = "user"
    /\ LET respond(status, msg) ==
               /\ last' = Response("deleteUser", id, NoBody, status, msg, NoError)
               /\ UNCHANGED users
       IN  IF UserFindById(id) = 0 \/ UserLoaded(id).deleted = TRUE
           THEN respond(404, MsgUserNotFound)
           ELSE IF users[id].username = UN_ADMIN
           THEN respond(400, "No se puede eliminar el administrador principal")
           ELSE /\ users' = [users EXCEPT ![id] = UserSoftDelete(UserLoaded(id))]
                /\ last' = Response("deleteUser", id, NoBody, 200, "Usuario eliminado exitosamente", NoError)
    /\ UNCHANGED <<resource, uploads, courses, commissions, rubrics, pending>>

restoreUser(id) ==
    /\ resource = "user"
    /\ LET respond(status, msg) ==
               /\ last' = Response("restoreUser", id, NoBody, status, msg, NoError)
               /\ UNCHANGED users
       IN  IF UserFindById(id) = 0
           THEN respond(404, MsgUserNotFound)
           ELSE IF UserLoaded(id).deleted # TRUE
           THEN respond(400, "El usuario no está eliminado")
           ELSE /\ users' = [users EXCEPT ![id] = UserRestore(@)]
                /\ last' = Response("restoreUser", id, NoBody, 200, "Usuario restaurado exitosamente", NoError)
    /\ UNCHANGED <<resource, uploads, courses, commissions, rubrics, pending>>

\* getUserById: GET /api/users/:id
getUserById(id) ==
    LET user == UserFindById(id)
    IN  IF user = 0 \/ UserLoaded(id).deleted = TRUE
        THEN [status |-> 404, msg |-> MsgUserNotFound, data |-> 0]
        ELSE [status |-> 200, msg |-> "", data |-> user]

UserNext ==
    \/ \E b \in CreateUserBodies : createUser(b)
    \/ \E q \in pending : createUserSave(q)
    \/ \E id \in 1..MaxUsers, b \in UpdateUserBodies : updateUser(id, b)
    \/ \E id \in 1..MaxUsers : deleteUser(id)
    \/ \E id \in 1..MaxUsers : restoreUser(id)

\* the administrator account created by the seed script
SeedUsers ==
    << [username |-> UN_ADMIN, name |-> "Administrador", password |-> Hash(PW_1),
        role |-> "admin", university_id |-> "utn", deleted |-> FALSE] >>

\* an account stored before the schema had the deleted field

LegacyUser ==
    [username |-> <<"a", "n", "a">>, name |-> "Ana", password |-> Hash(PW_1), role |-> "user",
     university_id |-> "utn"]

----------------------------------------------------------------------------
(* Rubrics (commission-scoped controller) *)

RUBRIC_TYPES == {"tp", "parcial"}

\* the suffixes Date.now() and Math.random() can give a generated rubric_id
MaxNonce == 2

MsgRubricType == "rubric_type debe ser uno de: ..."
MsgRubricCommissionNotFound == "La comisión especificada no existe"
MsgRubricCourseNotFound == "El curso especificado no existe"
MsgRubricExists == "Ya existe una rúbrica de tipo ... con número ... en esta comisión"
MsgRubricDuplicateKey == "Ya existe una rúbrica con esa combinación de comisión, tipo y número"
MsgRubricNotFound == "Rúbrica no encontrada"

\* rubric documents as sent by the client or answered by the webhook: a
\* missing one, one with and one without the rubric_id property
NoJson == [none |-> TRUE]
JSON_TP1 == [rubric_id |-> "tp1-listas", title |-> "TP Listas"]
JSON_NOID == [title |-> "TP Listas"]

\* the validator of rubricSchema.rubric_json
RubricJsonValid(v) == v # NoJson /\ "rubric_id" \in DOMAIN v /\ ~Falsy(v.rubric_id)

\* request bodies of POST /api/rubrics
RubricBody(name, commission_id, course_id, rubric_type, rubric_number, rubric_json) ==
    [name |-> name, commission_id |-> commission_id, course_id |-> course_id,
     career_id |-> "isi-frm", faculty_id |-> "frm", university_id |-> "utn",
     rubric_type |-> rubric_type, rubric_number |-> rubric_number, year |-> 2025,
     rubric_json |-> rubric_json]

CreateRubricBodies ==
    { RubricBody("TP1", "comision-1", CID_2025_PROG1, "tp", 1, JSON_TP1),
      RubricBody("TP1", "comision-1", CID_2025_PROG1, "quiz", 1, JSON_TP1),
      RubricBody("TP1", "comision-2", CID_2025_PROG1, "tp", 1, JSON_TP1),
      RubricBody("TP1", "comision-1", CID_2025_DIS, "tp", 1, JSON_TP1),
      RubricBody(Undefined, "comision-1", CID_2025_PROG1, "tp", 1, JSON_TP1) }

\* request bodies of PUT /api/rubrics/:id
RubricUpdate(name, course_id) ==
    [name |-> name, rubric_json |-> NoJson, course_id |-> course_id,
     career_id |-> Undefined, faculty_id |-> Undefined, university_id |-> Undefined,
     year |-> NoYear]

UpdateRubricBodies ==
    { RubricUpdate("TP1 bis", NoId)
          @@ [commission_id |-> "comision-2", rubric_type |-> "quiz", rubric_number |-> 2,
              rubric_id |-> <<"comision-2", "quiz", 2, 0>>] }

\* the pre(/^find/) hook of the rubric schema
RubricHook(S, namesDeleted) ==
    IF namesDeleted THEN S ELSE {i \in S : rubrics[i].deleted = FALSE}

\* Rubric.findById(id)
RubricFindById(id) == FirstId(RubricHook({i \in Ids(rubrics) : i = id}, FALSE))

\* Rubric.findOne({ commission_id, rubric_type, rubric_number, deleted: false })
RubricFindActiveKey(commission_id, rubric_type, rubric_number) ==
    FirstId(RubricHook({i \in Ids(rubrics) :
                           /\ rubrics[i].commission_id = commission_id
                           /\ rubrics[i].rubric_type = rubric_type
                           /\ rubrics[i].rubric_number = rubric_number
                           /\ rubrics[i].deleted = FALSE}, TRUE))

\* Commission.findOne({ commission_id, deleted: false })
CommissionExists(commission_id) ==
    \E i \in Ids(commissions) :
        commissions[i].commission_id = commission_id /\ commissions[i].deleted = FALSE

\* Course.findOne({ course_id, deleted: false })
CourseExists(course_id) ==
    CourseHook({i \in Ids(courses) :
                   courses[i].course_id = course_id /\ courses[i].deleted = FALSE}, TRUE) # {}

\* Rubric.generateRubricId(universityId, courseId): the two arguments followed
\* by Date.now() and a random suffix, which nonce stands for; the handlers
\* call it with (commission_id, rubric_type, rubric_number) and the third
\* argument is not read
generateRubricId(universityId, courseId, unread, nonce) ==
    <<universityId, courseId, nonce>>

\* the key of the existence query of createRubric and createRubricFromPDF
RubricTriple(doc) == <<doc.commission_id, doc.rubric_type, doc.rubric_number>>

\* the key of the unique index of the rubric collection
RubricIndexKey(doc) == <<doc.university_id, doc.course_id, doc.rubric_id>>

RubricIndexAllows(coll) ==
    \A i, j \in DOMAIN coll :
        RubricIndexKey(coll[i]) = RubricIndexKey(coll[j]) => i = j

\* the keys stored or about to be saved: their number is bounded
RubricKeysInPlay ==
    {RubricTriple(rubrics[i]) : i \in DOMAIN rubrics}
        \cup {RubricTriple(q.body) : q \in pending}

\* createRubric up to the save
createRubricCheck(b) ==
    IF \/ Falsy(b.name) \/ Falsy(b.commission_id) \/ b.course_id = NoId
       \/ Falsy(b.career_id) \/ Falsy(b.faculty_id) \/ Falsy(b.university_id)
       \/ Falsy(b.rubric_type) \/ b.rubric_number = 0 \/ b.year = NoYear
       \/ b.rubric_json = NoJson
    THEN Reject(400, "Faltan campos requeridos: name, commission_id, course_id, career_id, faculty_id, university_id, rubric_type, rubric_number, year, rubric_json")
    ELSE IF b.rubric_type \notin RUBRIC_TYPES
    THEN Reject(400, MsgRubricType)
    ELSE IF ~CommissionExists(b.commission_id)
    THEN Reject(400, MsgRubricCommissionNotFound)
    ELSE IF ~CourseExists(b.course_id)
    THEN Reject(400, MsgRubricCourseNotFound)
    ELSE IF RubricFindActiveKey(b.commission_id, b.rubric_type, b.rubric_number) # 0
    THEN Reject(409, MsgRubricExists)
    ELSE Proceed

createRubric(b) ==
    /\ resource = "rubric"
    /\ LET r == createRubricCheck(b)
       IN  IF r # Proceed
           THEN /\ last' = Response("createRubric", 0, b, r.status, r.msg, r.error)
                /\ UNCHANGED pending
           ELSE /\ Cardinality(RubricKeysInPlay \cup {RubricTriple(b)}) <= MaxRubrics
                /\ Cardinality(pending) < MaxInflight
                /\ pending' = Await(pending, "createRubric", b)
                /\ UNCHANGED last
    /\ UNCHANGED <<resource, uploads, courses, commissions, rubrics, users>>

\* new Rubric({...}) in createRubric
NewRubric(b, rubric_id) ==
    [rubric_id |-> rubric_id, name |-> b.name, commission_id |-> b.commission_id,
     course_id |-> b.course_id, career_id |-> b.career_id, faculty_id |-> b.faculty_id,
     university_id |-> b.university_id, rubric_type |-> b.rubric_type,
     rubric_number |-> b.rubric_number, year |-> b.year, rubric_json |-> b.rubric_json,
     source |-> "json", deleted |-> FALSE]

\* createRubric from generateRubricId and `await rubric.save()` on
createRubricSave(q, nonce) ==
    /\ resource = "rubric"
    /\ Resumable(pending, q)
    /\ q.op = "createRubric"
    /\ LET b == q.body
           doc == NewRubric(b, generateRubricId(b.commission_id, b.rubric_type,
                                                b.rubric_number, nonce))
           saved == Append(rubrics, doc)
       IN  IF ~RubricJsonValid(doc.rubric_json)
           THEN /\ rubrics' = rubrics
                /\ last' = Response("createRubric", 0, b, 400, MsgValidation, NoError)
           ELSE IF RubricIndexAllows(saved)
           THEN /\ Len(rubrics) < MaxRubrics
                /\ rubrics' = saved
                /\ last' = Response("createRubric", Len(saved), b, 201, "Rúbrica creada exitosamente", NoError)
           ELSE /\ rubrics' = rubrics
                /\ last' = Response("createRubric", 0, b, 409, MsgRubricDuplicateKey,
                                    ClaveDuplicada)
    /\ pending' = pending \ {q}
    /\ UNCHANGED <<resource, uploads, courses, commissions, users>>

\* updateRubric taking commission_id, rubric_type and rubric_number from the
\* body as well
RubricAssign_withKey(doc, b) ==
    [doc EXCEPT
        !.name = IF ~Falsy(b.name) THEN b.name ELSE @,
        !.commission_id = IF "commission_id" \in DOMAIN b THEN b.commission_id ELSE @,
        !.rubric_type = IF "rubric_type" \in DOMAIN b THEN b.rubric_type ELSE @,
        !.rubric_number = IF "rubric_number" \in DOMAIN b THEN b.rubric_number ELSE @]

\* the assignments of updateRubric to the loaded document
RubricAssign(doc, b) ==
    [doc EXCEPT
        !.name = IF ~Falsy(b.name) THEN b.name ELSE @,
        !.rubric_json = IF b.rubric_json # NoJson THEN b.rubric_json ELSE @,
        !.course_id = IF b.course_id # NoId THEN b.course_id ELSE @,
        !.career_id = IF ~Falsy(b.career_id) THEN b.career_id ELSE @,
        !.faculty_id = IF ~Falsy(b.faculty_id) THEN b.faculty_id ELSE @,
        !.university_id = IF ~Falsy(b.university_id) THEN b.university_id ELSE @,
        !.year = IF b.year # NoYear THEN b.year ELSE @]

updateRubric(id, b) ==
    /\ resource = "rubric"
    /\ LET respond(status, msg) ==
               /\ last' = Response("updateRubric", id, b, status, msg, NoError)
               /\ UNCHANGED rubrics
       IN  IF /\ Falsy(b.name) /\ b.rubric_json = NoJson /\ b.course_id = NoId
              /\ Falsy(b.career_id) /\ Falsy(b.faculty_id) /\ Falsy(b.university_id)
              /\ b.year = NoYear
           THEN respond(400, "Al menos un campo es requerido para actualizar")
           ELSE IF RubricFindById(id) = 0
           THEN respond(404, MsgRubricNotFound)
           ELSE LET doc == RubricAssign(rubrics[id], b)
                    saved == [rubrics EXCEPT ![id] = doc]
                IN  IF ~RubricJsonValid(doc.rubric_json)
                    THEN respond(400, MsgValidation)
                    ELSE IF RubricIndexAllows(saved)
                    THEN /\ rubrics' = saved
                         /\ last' = Response("updateRubric", id, b, 200, "Rúbrica actualizada exitosamente", NoError)
                    ELSE /\ last' = Response("updateRubric", id, b, 500, "Error al actualizar rúbrica", E11000)
                         /\ UNCHANGED rubrics
    /\ UNCHANGED <<resource, uploads, courses, commissions, users, pending>>

\* rubricSchema.methods.softDelete
RubricSoftDelete(doc) == [doc EXCEPT !.deleted = TRUE]

deleteRubric(id) ==
    /\ resource = "rubric"
    /\ IF RubricFindById(id) = 0
       THEN /\ last' = Response("deleteRubric", id, NoBody, 404, MsgRubricNotFound, NoError)
            /\ UNCHANGED rubrics
       ELSE /\ rubrics' = [rubrics EXCEPT ![id] = RubricSoftDelete(@)]
            /\ last' = Response("deleteRubric", id, NoBody, 200, "Rúbrica eliminada exitosamente", NoError)
    /\ UNCHANGED <<resource, uploads, courses, commissions, users, pending>>

\* the files that multer has written to the upload directory and that no
\* request still being served holds: their number is bounded
MaxUploads == 1

\* what the rubric webhook can answer to the one axios.post of a request: a
\* rubric document, a document without rubric_id, an HTTP error, or nothing
\* within the 60 seconds of the timeout

\* the message of the Error that generateRubricFromPDF throws
WebhookError(outcome) ==
    IF outcome = "error" THEN "Error del webhook n8n: Bad Gateway"
    ELSE "Error al conectar con n8n: timeout of 60000ms exceeded"

\* request bodies of POST /api/rubrics/from-pdf; file is req.file
PdfBody(name, rubric_type, rubric_number, file) ==
    [name |-> name, commission_id |-> "comision-1", course_id |-> CID_2025_PROG1,
     career_id |-> "isi-frm", faculty_id |-> "frm", university_id |-> "utn",
     rubric_type |-> rubric_type, rubric_number |-> rubric_number, year |-> 2025,
     file |-> file]

CreateRubricFromPDFBodies ==
    { PdfBody("TP1", "tp", 1, TRUE),
      PdfBody("TP1", "quiz", 1, TRUE),
      PdfBody("TP1", "tp", 1, FALSE) }

\* createRubricFromPDF up to the call of the webhook
createRubricFromPDFCheck(b) ==
    IF ~b.file
    THEN Reject(400, "No se proporcionó archivo PDF")
    ELSE IF \/ Falsy(b.name) \/ Falsy(b.commission_id) \/ b.course_id = NoId
            \/ Falsy(b.career_id) \/ Falsy(b.faculty_id) \/ Falsy(b.university_id)
            \/ Falsy(b.rubric_type) \/ b.rubric_number = 0 \/ b.year = NoYear
    THEN Reject(400, "Faltan campos requeridos: name, commission_id, course_id, career_id, faculty_id, university_id, rubric_type, rubric_number, year")
    ELSE IF b.rubric_type \notin RUBRIC_TYPES
    THEN Reject(400, MsgRubricType)
    ELSE IF ~CommissionExists(b.commission_id)
    THEN Reject(400, MsgRubricCommissionNotFound)
    ELSE IF ~CourseExists(b.course_id)
    THEN Reject(400, MsgRubricCourseNotFound)
    ELSE IF RubricFindActiveKey(b.commission_id, b.rubric_type, b.rubric_number) # 0
    THEN Reject(409, MsgRubricExists)
    ELSE Proceed

\* the response of createRubricFromPDF, with what the request saw of the
\* webhook: the number of calls it made and the answer to the last one
PdfResponse(id, b, status, msg, err, calls, webhook) ==
    Response("createRubricFromPDF", id, b, status, msg, err)
        @@ [calls |-> calls, webhook |-> webhook]

\* the request has called the webhook once and waits for its answer
AwaitWebhook(P, b) ==
    P \cup {[op |-> "createRubricFromPDF", body |-> b, calls |-> 1,
             n |-> Cardinality({q \in P : q.op = "createRubricFromPDF" /\ q.body = b}) + 1]}

\* createRubricFromPDF: multer has stored req.file before the handler runs;
\* pdfPath is assigned only after the checks, so the finally block of a
\* request answered by a check has nothing to unlink
createRubricFromPDF(b) ==
    /\ resource = "rubric"
    /\ LET r == createRubricFromPDFCheck(b)
       IN  IF r # Proceed
           THEN /\ b.file => uploads < MaxUploads
                /\ last' = PdfResponse(0, b, r.status, r.msg, r.error, 0, "not called")
                /\ uploads' = IF b.file THEN uploads + 1 ELSE uploads
                /\ UNCHANGED pending
           ELSE /\ Cardinality(RubricKeysInPlay \cup {RubricTriple(b)}) <= MaxRubrics
                /\ Cardinality(pending) < MaxInflight
                /\ pending' = AwaitWebhook(pending, b)
                /\ UNCHANGED <<last, uploads>>
    /\ UNCHANGED <<resource, courses, commissions, rubrics, users>>

\* new Rubric({...}) in createRubricFromPDF
NewRubricFromPDF(b, rubric_id, rubric_json) ==
    [rubric_id |-> rubric_id, name |-> b.name, commission_id |-> b.commission_id,
     course_id |-> b.course_id, career_id |-> b.career_id, faculty_id |-> b.faculty_id,
     university_id |-> b.university_id, rubric_type |-> b.rubric_type,
     rubric_number |-> b.rubric_number, year |-> b.year, rubric_json |-> rubric_json,
     source |-> "pdf", deleted |-> FALSE]

\* createRubricFromPDFSave calling the webhook a second time after a failure
createRubricFromPDFSave_retry(q, outcome, nonce) ==
    /\ resource = "rubric"
    /\ Resumable(pending, q)
    /\ q.op = "createRubricFromPDF"
    /\ LET b == q.body
           doc == NewRubricFromPDF(b, generateRubricId(b.commission_id, b.rubric_type,
                                                       b.rubric_number, nonce), JSON_TP1)
           saved == Append(rubrics, doc)
       IN  IF outcome \in {"error", "timeout"} /\ q.calls = 1
           THEN /\ pending' = (pending \ {q}) \cup {[q EXCEPT !.calls = 2]}
                /\ UNCHANGED <<rubrics, last>>
           ELSE /\ pending' = pending \ {q}
                /\ IF outcome \in {"error", "timeout"} \/ ~RubricIndexAllows(saved)
                   THEN /\ rubrics' = rubrics
                        /\ last' = PdfResponse(0, b, 500, "Error al crear rúbrica desde PDF",
                                               WebhookError(outcome), q.calls, outcome)
                   ELSE /\ Len(rubrics) < MaxRubrics
                        /\ rubrics' = saved
                        /\ last' = PdfResponse(Len(saved), b, 201,
                                               "Rúbrica creada exitosamente desde PDF", NoError,
                                               q.calls, outcome)
    /\ UNCHANGED <<resource, courses, commissions, users, uploads>>

\* createRubricFromPDF from the answer of the webhook on: generateRubricId,
\* save, the response, and the unlink of pdfPath in the finally block
createRubricFromPDFSave(q, outcome, nonce) ==
    /\ resource = "rubric"
    /\ Resumable(pending, q)
    /\ q.op = "createRubricFromPDF"
    /\ LET b == q.body
           rubric_json == IF outcome = "ok" THEN JSON_TP1 ELSE JSON_NOID
           doc == NewRubricFromPDF(b, generateRubricId(b.commission_id, b.rubric_type,
                                                       b.rubric_number, nonce), rubric_json)
           saved == Append(rubrics, doc)
           respond(status, msg, err) ==
               /\ rubrics' = rubrics
               /\ last' = PdfResponse(0, b, status, msg, err, q.calls, outcome)
       IN  IF outcome \in {"error", "timeout"}
           THEN respond(500, "Error al crear rúbrica desde PDF", WebhookError(outcome))
           ELSE IF ~RubricJsonValid(doc.rubric_json)
           THEN respond(400, MsgValidation, NoError)
           ELSE IF RubricIndexAllows(saved)
           THEN /\ Len(rubrics) < MaxRubrics
                /\ rubrics' = saved
                /\ last' = PdfResponse(Len(saved), b, 201,
                                       "Rúbrica creada exitosamente desde PDF", NoError,
                                       q.calls, outcome)
           ELSE respond(409, MsgRubricDuplicateKey, ClaveDuplicada)
    /\ pending' = pending \ {q}
    /\ UNCHANGED <<resource, courses, commissions, users, uploads>>

\* Rubric.findActive(filters)
RubricFindActive(filters) ==
    {i \in Ids(rubrics) : rubrics[i].deleted = FALSE /\ Matches(rubrics[i], filters)}

\* getRubrics: GET /api/rubrics
getRubrics(query) ==
    RubricFindActive(
        Filters(query, {"commission_id", "course_id", "rubric_type", "year", "career_id",
                        "faculty_id", "university_id"}))

\* req.query of GET /api/rubrics
RubricQueries ==
    [commission_id : {Undefined, "comision-1", "comision-2"},
     rubric_type : {Undefined, "", "tp", "parcial"},
     course_id : {NoId, CID_2025_PROG1},
     year : {NoId, Y_2025, Y_2024, Y_2025_SUFFIX}]

\* getRubricById: GET /api/rubrics/:id
getRubricById(id) ==
    LET rubric == RubricFindById(id)
    IN  IF rubric = 0
        THEN [status |-> 404, msg |-> MsgRubricNotFound, data |-> 0]
        ELSE [status |-> 200, msg |-> "", data |-> rubric]

\* the suffixes the rubric_id generated for body b can get: one that a stored
\* rubric_id with the same first two parts already has, or the next unused one
\* (unused suffixes are interchangeable)
Nonces(b) ==
    LET used == Cardinality({rubrics[i].rubric_id[3] : i \in
                   {j \in DOMAIN rubrics :
                       /\ rubrics[j].rubric_id[1] = b.commission_id
                       /\ rubrics[j].rubric_id[2] = b.rubric_type}})
    IN  1..(IF used < MaxNonce THEN used + 1 ELSE MaxNonce)

RubricNext ==
    \/ \E b \in CreateRubricBodies : createRubric(b)
    \/ \E q \in pending : \E nonce \in Nonces(q.body) : createRubricSave(q, nonce)
    \/ \E b \in CreateRubricFromPDFBodies : createRubricFromPDF(b)
    \/ \E q \in pending, outcome \in {"ok", "invalid", "error", "timeout"} :
          \E nonce \in Nonces(q.body) :
          createRubricFromPDFSave(q, outcome, nonce)
    \/ \E id \in 1..MaxRubrics, b \in UpdateRubricBodies : updateRubric(id, b)
    \/ \E id \in 1..MaxRubrics : deleteRubric(id)

\* the course and the commission that the rubric requests refer to, as the
\* seed script stores them
SeedCourses ==
    << [course_id |-> CID_2025_PROG1, name |-> "Programacion 1", year |-> 2025,
        career_id |-> "isi-frm", faculty_id |-> "frm", university_id |-> "utn",
        deleted |-> FALSE] >>

SeedCommissions ==
    << [commission_id |-> "comision-1", name |-> "Comision 1", course_id |-> CID_2025_PROG1,
        career_id |-> "isi-frm", faculty_id |-> "frm", university_id |-> "utn",
        professor_name |-> Undefined, professor_email |-> Undefined, year |-> 2025,
        deleted |-> FALSE] >>

----------------------------------------------------------------------------

Resources == {"course", "commission", "user", "rubric"}

Init ==
    /\ resource \in Resources
    /\ courses = IF resource = "rubric" THEN SeedCourses ELSE <<>>
    /\ commissions = IF resource = "rubric" THEN SeedCommissions ELSE <<>>
    /\ rubrics = <<>>
    /\ users \in IF resource = "user"
                 THEN {SeedUsers, Append(SeedUsers, LegacyUser)}
                 ELSE {SeedUsers}
    /\ uploads = 0
    /\ pending = {}
    /\ last = NoResponse

Next ==
    \/ CourseNext
    \/ CommissionNext
    \/ UserNext
    \/ RubricNext

Spec == Init /\ [][Next]_vars

----------------------------------------------------------------------------
(* Properties of the course store *)

C2_RaceGivesOneSuccessOneConflict ==
    [][\A q \in pending : pending' = pending \ {q} =>
          /\ q.op = "createCourse" =>
                IF \E i \in DOMAIN courses : CourseIndexKey(courses[i]) = CourseIndexKey(q.body)
                THEN last'.status = 409 /\ courses' = courses
                ELSE last'.status = 201
          /\ q.op = "createCommission" =>
                IF \E i \in DOMAIN commissions :
                       CommissionIndexKey(commissions[i]) = CommissionIndexKey(q.body)
                THEN last'.status = 409 /\ commissions' = commissions
                ELSE last'.status = 201
          /\ (/\ q.op = "createUser"
              /\ UserValid(NewUser(q.body))
              /\ PasswordValid(q.body.password)) =>
                IF \E i \in DOMAIN users : UserIndexKey(users[i]) = UserIndexKey(NewUser(q.body))
                THEN last'.status = 409 /\ users' = users
                ELSE last'.status = 201
      ]_vars

\* C3: a soft-deleted record is returned by no default listing (getCourses /
\* Course.findActive, getCommissions / Commission.findActive, getUsers without
\* includeDeleted=true), and is returned, with deleted = true, by the query
\* that names the deleted field and by the 'all' variants (getAllCommissions,
\* getUsers with includeDeleted=true).
C3_DeletedHiddenUnlessAskedFor ==
    /\ \A i \in DOMAIN courses : courses[i].deleted = TRUE =>
          /\ \A query \in CourseQueries : i \notin getCourses(query)
          /\ i \notin CourseFindActive(<<>>)
          /\ CourseFindAny(courses[i].career_id, courses[i].course_id) = i
    /\ \A i \in DOMAIN commissions : commissions[i].deleted = TRUE =>
          /\ \A query \in CommissionQueries : i \notin getCommissions(query)
          /\ i \notin CommissionFindActive(<<>>)
          /\ i \in getAllCommissions([course_id |-> NoId, career_id |-> Undefined, year |-> NoId])
          /\ \A y \in {Y_2025, Y_2025_SUFFIX} : parseInt(y) = commissions[i].year =>
                i \in getAllCommissions([course_id |-> commissions[i].course_id,
                                         career_id |-> commissions[i].career_id,
                                         year |-> y])
          /\ CommissionFindDeleted(i) = i
    /\ \A i \in DOMAIN users : UserLoaded(i).deleted = TRUE =>
          /\ \A query \in UserQueries : query.includeDeleted # "true" =>
                \A r \in getUsers(query) : r.id # i
          /\ i \notin UserFindActive
          /\ \E r \in getUsers([includeDeleted |-> "true", role |-> Undefined,
                                university_id |-> Undefined]) :
                r.id = i /\ r.deleted = TRUE

\* a user has just been soft-deleted
C3_UserJustDeleted ==
    /\ last.op = "deleteUser"
    /\ last.status = 200
    /\ UserLoaded(last.id).deleted = TRUE

\* C4: for users and commissions, a restore request on a deleted record
\* answers 200 and sets deleted = false, so that the default listing returns
\* the record again; a restore request on a record that exists and is active
\* answers 400 (not 404) and changes nothing.
C4_RestoreOutcomes ==
    [][/\ \A id \in DOMAIN users :
            (last' # last /\ last'.op = "restoreUser" /\ last'.id = id) =>
                IF UserLoaded(id).deleted = TRUE
                THEN /\ last'.status = 200
                     /\ users'[id].deleted = FALSE
                     /\ (id \in UserFindActive)'
                ELSE /\ last'.status = 400
                     /\ users' = users
       /\ \A id \in DOMAIN commissions :
            (last' # last /\ last'.op = "restoreCommission" /\ last'.id = id) =>
                IF commissions[id].deleted = TRUE
                THEN /\ last'.status = 200
                     /\ commissions'[id].deleted = FALSE
                     /\ (id \in CommissionFindActive(<<>>))'
                ELSE /\ last'.status = 400
                     /\ commissions' = commissions
      ]_vars

C7_AdminIsNeverDeleted ==
    /\ \A i \in DOMAIN users :
          (last.op = "deleteUser" /\ last.id = i /\ users[i].username = UN_ADMIN) =>
              /\ last.status = 400
              /\ last.msg = "No se puede eliminar el administrador principal"
              /\ <<last.status, last.msg>> # <<404, MsgUserNotFound>>
    /\ \A i \in DOMAIN users : users[i].username = UN_ADMIN => UserLoaded(i).deleted = FALSE

\* deleteUser on the administrator has been answered while another user is
\* soft-deleted
C7_AdminDeleteRefused ==
    /\ last.op = "deleteUser"
    /\ last.id \in DOMAIN users
    /\ users[last.id].username = UN_ADMIN
    /\ \E i \in DOMAIN users : UserLoaded(i).deleted = TRUE

\* C8: for every kind (course, user, commission, rubric), a create request
\* that passes the field validation and whose key is held only by a
\* soft-deleted record is rejected with the 'exists but deleted' response that
\* tells the client to restore: not accepted, nothing stored, and not the
\* response given for a conflict with an active record.
C8_DeletedKeyAnsweredExistsButDeleted ==
    [][/\ (/\ last' # last
           /\ last'.op = "createCourse"
           /\ last'.msg \notin {"Faltan campos requeridos: course_id, name, year, career_id, faculty_id, university_id",
                                "El course_id debe tener el formato YYYY-nombre (ej: 2025-programacion-ii)",
                                MsgCareerNotFound}
           /\ \E i \in DOMAIN courses : CourseIndexKey(courses[i]) = CourseIndexKey(last'.body)
           /\ \A i \in DOMAIN courses :
                 CourseIndexKey(courses[i]) = CourseIndexKey(last'.body) => courses[i].deleted = TRUE)
          => /\ last'.status = 400
             /\ last'.msg = "Ya existe un curso con ese ID en esta carrera (eliminado). Contacte al administrador para restaurarlo."
             /\ last'.msg # MsgCourseExists
             /\ courses' = courses
       /\ (/\ last' # last
           /\ last'.op = "createUser"
           /\ last'.msg \notin {"username, nombre y password son requeridos",
                                "El campo university_id es requerido para roles que no sean super-admin",
                                MsgValidation}
           /\ \E i \in DOMAIN users : UserIndexKey(users[i]) = UserIndexKey(NewUser(last'.body))
           /\ \A i \in DOMAIN users :
                 UserIndexKey(users[i]) = UserIndexKey(NewUser(last'.body)) => UserLoaded(i).deleted = TRUE)
          => /\ last'.status = 400
             /\ last'.msg = "Este nombre de usuario perteneció a una cuenta eliminada. Use otro nombre o restaure la cuenta."
             /\ last'.msg # MsgUserExists
             /\ users' = users
       /\ (/\ last' # last
           /\ last'.op = "createCommission"
           /\ last'.msg # "Faltan campos requeridos: commission_id, name, course_id, career_id, faculty_id, university_id, year"
           /\ \E i \in DOMAIN commissions :
                 CommissionIndexKey(commissions[i]) = CommissionIndexKey(last'.body)
           /\ \A i \in DOMAIN commissions :
                 CommissionIndexKey(commissions[i]) = CommissionIndexKey(last'.body)
                     => commissions[i].deleted = TRUE)
          => /\ last'.status \in 400..499
             /\ last'.msg # MsgCommissionExists
             /\ commissions' = commissions
       /\ (/\ last' # last
           /\ last'.op = "createRubric"
           /\ last'.msg \notin {"Faltan campos requeridos: name, commission_id, course_id, career_id, faculty_id, university_id, rubric_type, rubric_number, year, rubric_json",
                                MsgRubricType,
                                MsgRubricCommissionNotFound,
                                
                                MsgRubricCourseNotFound, MsgValidation}
           /\ \E i \in DOMAIN rubrics : RubricTriple(rubrics[i]) = RubricTriple(last'.body)
           /\ \A i \in DOMAIN rubrics :
                 RubricTriple(rubrics[i]) = RubricTriple(last'.body) => rubrics[i].deleted = TRUE)
          => /\ last'.status \in 400..499
             /\ last'.msg \notin {MsgRubricExists, MsgRubricDuplicateKey}
             /\ rubrics' = rubrics
      ]_vars

\* C9: for every kind, a delete request on a record that exists and is
\* already soft-deleted is answered 400 (not the 404 of a missing record, not
\* 200) and changes nothing.
C9_DeleteOfDeletedAnswered400 ==
    [][/\ \A id \in DOMAIN courses :
            (/\ last' # last /\ last'.op = "deleteCourse" /\ last'.id = id
             /\ courses[id].deleted = TRUE)
                => last'.status = 400 /\ courses' = courses
       /\ \A id \in DOMAIN commissions :
            (/\ last' # last /\ last'.op = "deleteCommission" /\ last'.id = id
             /\ commissions[id].deleted = TRUE)
                => last'.status = 400 /\ commissions' = commissions
       /\ \A id \in DOMAIN users :
            (/\ last' # last /\ last'.op = "deleteUser" /\ last'.id = id
             /\ UserLoaded(id).deleted = TRUE)
                => last'.status = 400 /\ users' = users
       /\ \A id \in DOMAIN rubrics :
            (/\ last' # last /\ last'.op = "deleteRubric" /\ last'.id = id
             /\ rubrics[id].deleted = TRUE)
                => last'.status = 400 /\ rubrics' = rubrics
      ]_vars

\* C10: when the save of createCourse or createCommission is rejected by the
\* unique index because an active record holds the key, the response (status,
\* message, error) is the one that the existence check of the same handler
\* gives for that request in that store.
C10_IndexRejectionAnsweredLikeCheck ==
    [][\A q \in pending : pending' = pending \ {q} =>
          /\ (/\ q.op = "createCourse"
              /\ courses' = courses
              /\ \E i \in DOMAIN courses :
                    /\ CourseIndexKey(courses[i]) = CourseIndexKey(q.body)
                    /\ courses[i].deleted = FALSE)
             => <<last'.status, last'.msg, last'.error>>
                    = <<createCourseCheck(q.body).status, createCourseCheck(q.body).msg,
                        createCourseCheck(q.body).error>>
          /\ (/\ q.op = "createCommission"
              /\ commissions' = commissions
              /\ \E i \in DOMAIN commissions :
                    /\ CommissionIndexKey(commissions[i]) = CommissionIndexKey(q.body)
                    /\ commissions[i].deleted = FALSE)
             => <<last'.status, last'.msg, last'.error>>
                    = <<createCommissionCheck(q.body).status, createCommissionCheck(q.body).msg,
                        createCommissionCheck(q.body).error>>
      ]_vars


\* C11: no request to the create, update, delete and restore endpoints removes
\* a record: in every step, every internal id stored before the step is still
\* stored after it, in each of the four collections.
C11_NoRecordIsRemoved ==
    [][/\ DOMAIN courses \subseteq DOMAIN courses'
       /\ DOMAIN commissions \subseteq DOMAIN commissions'
       /\ DOMAIN rubrics \subseteq DOMAIN rubrics'
       /\ DOMAIN users \subseteq DOMAIN users']_vars

\* a commission has been deleted with 200 and is still stored under its id
C11_DeletedCommissionStillStored ==
    /\ last.op = "deleteCommission"
    /\ last.status = 200
    /\ last.id \in DOMAIN commissions
    /\ commissions[last.id].deleted = TRUE


\* C12: get-by-id returns the record with the given internal id whether it is
\* deleted or not (200 with that record), and answers 404 only for an id
\* under which nothing is stored, for courses, commissions, users and rubrics.
C12_GetByIdIgnoresDeletedFlag ==
    /\ \A id \in 1..MaxCourses :
          IF id \in DOMAIN courses
          THEN getCourseById(id).status = 200 /\ getCourseById(id).data = id
          ELSE getCourseById(id).status = 404
    /\ \A id \in 1..MaxCommissions :
          IF id \in DOMAIN commissions
          THEN getCommissionById(id).status = 200 /\ getCommissionById(id).data = id
          ELSE getCommissionById(id).status = 404
    /\ \A id \in 1..MaxUsers :
          IF id \in DOMAIN users
          THEN getUserById(id).status = 200 /\ getUserById(id).data = id
          ELSE getUserById(id).status = 404
    /\ \A id \in 1..MaxRubrics :
          IF id \in DOMAIN rubrics
          THEN getRubricById(id).status = 200 /\ getRubricById(id).data = id
          ELSE getRubricById(id).status = 404


C14_OneCommissionPerCommissionId ==
    \A q \in [course_id : {NoId, CID_2025_PROG1, CID_2025_DIS},
               year : {NoId, Y_2025, Y_2024}] :
        LET matching == {i \in DOMAIN commissions :
                            /\ commissions[i].deleted = FALSE
                            /\ q.course_id # NoId => commissions[i].course_id = q.course_id
                            /\ q.year # NoId => commissions[i].year = parseInt(q.year)}
        IN  /\ getUniqueCommissions(q) # {}
            /\ \A R \in getUniqueCommissions(q) :
                  /\ \A i, j \in R :
                        commissions[i].commission_id = commissions[j].commission_id => i = j
                  /\ R \subseteq matching
                  /\ \A i \in matching :
                        \E j \in R : commissions[j].commission_id = commissions[i].commission_id

\* two active commissions of different courses share their commission_id and
\* the unfiltered request returns one of them
C14_TwoCoursesShareCommissionId ==
    /\ \E i, j \in CommissionFindActive(<<>>) :
          /\ i # j
          /\ commissions[i].commission_id = commissions[j].commission_id
    /\ \E R \in getUniqueCommissions([course_id |-> NoId, year |-> NoId]) :
          Cardinality(R) = 1


\* C15: every createRubricFromPDF request that arrives with an uploaded file
\* has that file deleted from the upload directory by the time it is
\* answered, whatever the answer: the step that answers it leaves in the
\* directory no file that was not there before the request.
C15_UploadedFileDeletedWhenAnswered ==
    [][(/\ last' # last
        /\ last'.op = "createRubricFromPDF"
        /\ last'.body.file)
           => uploads' = uploads]_vars

\* C16: a createRubricFromPDF request calls the rubric webhook at most once;
\* when that call fails or times out the request is answered 500 with the
\* message of the upstream error, and the rubric collection is as before.
C16_WebhookFailureAnswered500NoRetry ==
    [][/\ \A q \in pending' : q.op = "createRubricFromPDF" => q.calls <= 1
       /\ (last' # last /\ last'.op = "createRubricFromPDF") =>
             /\ last'.calls <= 1
             /\ last'.webhook \in {"error", "timeout"} =>
                   /\ last'.status = 500
                   /\ last'.error = WebhookError(last'.webhook)
                   /\ rubrics' = rubrics]_vars

\* the webhook of a request timed out while a rubric created by another
\* request was stored
C16_WebhookTimedOut ==
    /\ last.op = "createRubricFromPDF"
    /\ last.webhook = "timeout"
    /\ last.calls = 1
    /\ last.status = 500
    /\ rubrics # <<>>


\* C17: a user record without the deleted field is treated as active by
\* every read path: User.findActive returns it, getUserById returns it, and
\* getUsers without includeDeleted returns it whenever it matches the role and
\* university_id filters, as it returns a record with deleted=false.
C17_UserWithoutDeletedFieldIsActive ==
    \A i \in DOMAIN users : "deleted" \notin DOMAIN users[i] =>
        /\ i \in UserFindActive
        /\ getUserById(i).status = 200
        /\ \A q \in UserQueries : q.includeDeleted # "true" =>
              LET matches == /\ q.role # Undefined => users[i].role = q.role
                             /\ q.university_id # Undefined =>
                                   users[i].university_id = q.university_id
              IN  matches <=> \E r \in getUsers(q) : r.id = i


\* C18: in every step, a record's deleted flag goes from false to true only
\* in a delete request on that record and from true to false only in a restore
\* request on it; a record that a step adds is stored with deleted=false; so
\* no create and no update changes the flag of a stored record.
C18_FlagChangesOnlyByDeleteAndRestore ==
    [][LET Changes(before, after, id, kind) ==
               /\ (before = FALSE /\ after = TRUE) =>
                     last'.op = "delete" \o kind /\ last'.id = id /\ last'.status = 200
               /\ (before = TRUE /\ after = FALSE) =>
                     last'.op = "restore" \o kind /\ last'.id = id /\ last'.status = 200
       IN  /\ \A i \in DOMAIN courses' :
                 IF i \in DOMAIN courses
                 THEN Changes(courses[i].deleted, courses'[i].deleted, i, "Course")
                 ELSE courses'[i].deleted = FALSE
           /\ \A i \in DOMAIN commissions' :
                 IF i \in DOMAIN commissions
                 THEN Changes(commissions[i].deleted, commissions'[i].deleted, i, "Commission")
                 ELSE commissions'[i].deleted = FALSE
           /\ \A i \in DOMAIN rubrics' :
                 IF i \in DOMAIN rubrics
                 THEN Changes(rubrics[i].deleted, rubrics'[i].deleted, i, "Rubric")
                 ELSE rubrics'[i].deleted = FALSE
           /\ \A i \in DOMAIN users' :
                 IF i \in DOMAIN users
                 THEN Changes(UserLoaded(i).deleted, UserLoaded(i)'.deleted, i, "User")
                 ELSE UserLoaded(i)'.deleted = FALSE]_vars

\* a deleted commission has been restored: its flag is false again
C18_CommissionRestored ==
    /\ last.op = "restoreCommission"
    /\ last.status = 200
    /\ last.id \in DOMAIN commissions
    /\ commissions[last.id].deleted = FALSE


----------------------------------------------------------------------------
(* The user routes on a store that holds no account yet: the requests that
   collide on one username, written in either case *)

InitNoUsers ==
    /\ resource = "user"
    /\ courses = <<>>
    /\ commissions = <<>>
    /\ rubrics = <<>>
    /\ users = <<>>
    /\ uploads = 0
    /\ pending = {}
    /\ last = NoResponse

NextNoUsers ==
    \/ \E b \in {x \in CreateUserBodies : x.username \in {UN_BOB, UN_BOB_UC}} : createUser(b)
    \/ \E q \in pending : createUserSave(q)
    \/ \E id \in 1..MaxUsers, b \in UpdateUserBodies : updateUser(id, b)
    \/ \E id \in 1..MaxUsers : deleteUser(id)
    \/ \E id \in 1..MaxUsers : restoreUser(id)

SpecNoUsers == InitNoUsers /\ [][NextNoUsers]_vars

\* C20: in every reachable state, whatever createUser, updateUser, deleteUser
\* and restoreUser requests ran and however they interleaved, no two stored
\* users, active or deleted, have the same lowercased username.
C20_StoredUsernamesDifferLowercased ==
    \A i, j \in DOMAIN users :
        toLowerCase(users[i].username) = toLowerCase(users[j].username) => i = j

\* two requests passed the username check together; the first was saved
\* and the save of the second has just been refused by the index
C20_SecondConcurrentSaveRefused ==
    /\ last.op = "createUser"
    /\ last.status = 500
    /\ last.error = E11000
    /\ \E i \in DOMAIN users : users[i].username = toLowerCase(last.body.username)


----------------------------------------------------------------------------
(* Properties of updateUser *)

\* C21: updateUser never changes the username or the role of the user whose
\* username is 'admin'; a request for that user that supplies a different
\* username, or a role other than 'admin', is answered 400 and stores none of
\* the fields it supplies.
C21_AdminUsernameAndRoleKept ==
    [][\A id \in DOMAIN users :
          (/\ last' # last
           /\ last'.op = "updateUser"
           /\ last'.id = id
           /\ UserLoaded(id).username = UN_ADMIN)
          => /\ users'[id].username = UN_ADMIN
             /\ users'[id].role = users[id].role
             /\ (\/ (last'.body.username # NoId /\ last'.body.username # UN_ADMIN)
                 \/ (~Falsy(last'.body.role) /\ last'.body.role # "admin"))
                => (last'.status = 400 /\ users' = users)]_vars

\* a request that gives the administrator another role, and a new name with
\* it, has just been refused and the name is not stored
C21_AdminRoleChangeRefused ==
    /\ last.op = "updateUser"
    /\ last.status = 400
    /\ last.msg = "No se puede cambiar el rol del administrador principal"
    /\ users[last.id].username = UN_ADMIN
    /\ ~Falsy(last.body.name)
    /\ users[last.id].name # last.body.name
    /\ users[last.id].role = "admin"


\* C22: in every reachable state every stored user whose role is
\* 'super-admin' has university_id null, whatever createUser and updateUser did.
C22_SuperAdminHasNoUniversity ==
    \A i \in DOMAIN users :
        users[i].role = "super-admin" => users[i].university_id = Null

\* an update that supplies a university_id to a super-admin has just been
\* answered 200, and the stored university_id is null
C22_UniversitySuppliedToSuperAdmin ==
    /\ last.op = "updateUser"
    /\ last.status = 200
    /\ last.body.university_id \notin {Undefined, Null}
    /\ Falsy(last.body.role)
    /\ users[last.id].role = "super-admin"
    /\ users[last.id].university_id = Null


\* C23: in every reachable state every stored user whose role is not
\* 'super-admin' has a non-empty university_id, also after its role was
\* changed away from 'super-admin' or its university_id was updated to an
\* empty value.
C23_OtherRolesHaveUniversity ==
    \A i \in DOMAIN users :
        users[i].role # "super-admin"
            => users[i].university_id # Null /\ ~Falsy(users[i].university_id)


----------------------------------------------------------------------------
(* Properties of every write handler *)

\* C24: a create, update, delete or restore request that is answered with a
\* status other than 200 or 201 leaves every collection exactly as it was,
\* also when the handler had assigned supplied fields to the loaded document
\* before it rejected the request.
C24_RejectedRequestChangesNothing ==
    [][(last'.op # "none" /\ last'.status \notin {200, 201})
          => UNCHANGED <<courses, commissions, rubrics, users>>]_vars

\* updateUser has just refused a request for the administrator at the role
\* guard, which comes after the assignments of name and password
C24_RefusedAfterAssignments ==
    /\ last.op = "updateUser"
    /\ last.status = 400
    /\ ~Falsy(last.body.role)
    /\ ~Falsy(last.body.name)
    /\ last.body.university_id # Undefined
    /\ users[last.id].role # last.body.role
    /\ users[last.id].university_id # last.body.university_id


\* C25: updateCommission on a soft-deleted commission is answered 400 and
\* changes nothing; a deleted commission changes in no step except by the
\* restore that clears its flag, so it is restored with the fields it was
\* deleted with.
C25_DeletedCommissionKeepsFields ==
    [][\A i \in DOMAIN commissions :
          commissions[i].deleted = TRUE
          => /\ i \in DOMAIN commissions'
             /\ \/ commissions'[i] = commissions[i]
                \/ /\ commissions'[i] = CommissionRestore(commissions[i])
                   /\ last'.op = "restoreCommission"
             /\ (last' # last /\ last'.op = "updateCommission" /\ last'.id = i)
                => (last'.status = 400 /\ commissions' = commissions)]_vars

\* an update that carries another course_id for a deleted commission has just
\* been refused
C25_UpdateOfDeletedRefused ==
    /\ last.op = "updateCommission"
    /\ last.status = 400
    /\ last.id \in DOMAIN commissions
    /\ commissions[last.id].deleted = TRUE
    /\ last.body.course_id # NoId
    /\ commissions[last.id].course_id # last.body.course_id


\* C26: no update request changes a natural key: updateCommission leaves
\* commission_id, updateRubric leaves commission_id, rubric_type,
\* rubric_number and rubric_id, and updateCourse leaves course_id of every
\* stored record as it was, also when the body carries another value.
C26_UpdateKeepsNaturalKey ==
    [][/\ (last' # last /\ last'.op = "updateCommission")
          => \A i \in DOMAIN commissions :
                /\ i \in DOMAIN commissions'
                /\ commissions'[i].commission_id = commissions[i].commission_id
       /\ (last' # last /\ last'.op = "updateRubric")
          => \A i \in DOMAIN rubrics :
                /\ i \in DOMAIN rubrics'
                /\ rubrics'[i].commission_id = rubrics[i].commission_id
                /\ rubrics'[i].rubric_type = rubrics[i].rubric_type
                /\ rubrics'[i].rubric_number = rubrics[i].rubric_number
                /\ rubrics'[i].rubric_id = rubrics[i].rubric_id
       /\ (last' # last /\ last'.op = "updateCourse")
          => \A i \in DOMAIN courses :
                /\ i \in DOMAIN courses'
                /\ courses'[i].course_id = courses[i].course_id]_vars

\* an update whose body carries another commission_id, rubric_type and
\* rubric_number has just been stored for a rubric, which kept its own
C26_RubricUpdatedWithKeyInBody ==
    /\ last.op = "updateRubric"
    /\ last.status = 200
    /\ "commission_id" \in DOMAIN last.body
    /\ rubrics[last.id].name = last.body.name
    /\ rubrics[last.id].commission_id # last.body.commission_id
    /\ rubrics[last.id].rubric_type # last.body.rubric_type
    /\ rubrics[last.id].rubric_number # last.body.rubric_number
    /\ rubrics[last.id].rubric_id # last.body.rubric_id


----------------------------------------------------------------------------
(* Properties of the rubric store *)

\* C27: in every reachable state, whatever createRubric, createRubricFromPDF
\* and deleteRubric requests ran and however they interleaved, at most one
\* active rubric exists for each (commission_id, rubric_type, rubric_number).
C27_OneActiveRubricPerTriple ==
    \A i, j \in DOMAIN rubrics :
        /\ rubrics[i].deleted = FALSE
        /\ rubrics[j].deleted = FALSE
        /\ RubricTriple(rubrics[i]) = RubricTriple(rubrics[j])
        => i = j


----------------------------------------------------------------------------
(* The list routes: the stores that the create, update, delete and restore
   requests of courses, commissions and rubrics build, read by getCourses,
   getCommissions and getRubrics *)

InitLists ==
    /\ resource \in {"course", "commission", "rubric"}
    /\ courses = IF resource = "rubric" THEN SeedCourses ELSE <<>>
    /\ commissions = IF resource = "rubric" THEN SeedCommissions ELSE <<>>
    /\ rubrics = <<>>
    /\ users = SeedUsers
    /\ uploads = 0
    /\ pending = {}
    /\ last = NoResponse

NextLists ==
    \/ CourseNext
    \/ CommissionNext
    \/ \E b \in CreateRubricBodies : createRubric(b)
    \/ \E q \in pending : \E nonce \in Nonces(q.body) : createRubricSave(q, nonce)
    \/ \E id \in 1..MaxRubrics, b \in UpdateRubricBodies : updateRubric(id, b)
    \/ \E id \in 1..MaxRubrics : deleteRubric(id)

SpecLists == InitLists /\ [][NextLists]_vars

====
